---- MODULE Spec2Model ----
(***************************************************************************)
(* GP-ENSO: time index mapping, series preparation, GP fit / predict,      *)
(* rescaling to physical units and path sampling.                          *)
(*                                                                         *)
(* Number representation.                                                  *)
(*   - calendar dates are whole days, counted from 1870-08-01;             *)
(*   - a numeric time index is the quotient of two durations and is kept   *)
(*     as a fraction <<num, den>> with den > 0 (float64 division is        *)
(*     monotone, so order and sign are those of the fraction);             *)
(*   - observations, means and covariances are floats, modelled as         *)
(*     fixed-point integers in units of 1/Q with round-to-nearest after    *)
(*     every division and product, and NaN as a distinguished value that   *)
(*     every arithmetic operation propagates.                              *)
(***************************************************************************)
EXTENDS Integers, Sequences, FiniteSets, TLC

\* ------------------------------------------------------------------ bounds
Q == 100            \* fixed-point resolution: 1.0 is Q
MaxDates == 3       \* longest date vector handed to the time index mapper
MaxLen == 3         \* longest series handed straight to the normalisers
MaxDraws == 2       \* largest draws argument of draw_paths
MaxCalls == 3       \* draw_paths calls in one run
MaxEntropy == 3     \* states of the entropy source outside draw_paths
MaxRows == 5        \* rows of a monthly CSV file fed to the whole pipeline
MaxCsvRows == 4     \* rows of an arbitrary CSV file fed to the preparer

\* ------------------------------------------------------ program constants
DEFAULT_REFERENCE_TIME == 0     \* 1870-08-01, the origin of the day count
YearDays == 365                 \* pd.Timedelta(365, "D")
DefaultScale == 365             \* dates_to_index(scale=365.0)
DefaultSeed == -1               \* draw_paths(seed=-1)
MissingSentinel == -9999        \* clean_and_index(missing_sentinel=-9999.0)
RollingWindow == 3              \* prepare_enso_dataframe(rolling_window=3)
MainDraws == 5                  \* main: draw_paths(..., draws=5, seed=1)
MainSeed == 1

\* -------------------------------------------------------------- arithmetic
NaN == 0 - 1000000000

IsNaN(x) == x = NaN

Abs(x) == IF x < 0 THEN 0 - x ELSE x

\* round-to-nearest quotient, d > 0
RoundDiv(n, d) == (2 * n + d) \div (2 * d)

FAdd(a, b) == IF IsNaN(a) \/ IsNaN(b) THEN NaN ELSE a + b
FSub(a, b) == IF IsNaN(a) \/ IsNaN(b) THEN NaN ELSE a - b
FMul(a, b) == IF IsNaN(a) \/ IsNaN(b) THEN NaN ELSE RoundDiv(a * b, Q)
\* a / b for b # 0 (the only divisions of the program are by a std that
\* passed the "== 0" test; np.std is never negative)
FDiv(a, b) == IF IsNaN(a) \/ IsNaN(b) THEN NaN ELSE RoundDiv(a * Q, b)

RECURSIVE Newton(_, _)
Newton(k, x) ==
    LET y == (x + k \div x) \div 2
    IN  IF y >= x THEN x ELSE Newton(k, y)
\* floor of the square root of k >= 0
ISqrt(k) == IF k = 0 THEN 0 ELSE Newton(k, k)

RECURSIVE SumSeq(_)
SumSeq(s) == IF s = <<>> THEN 0 ELSE Head(s) + SumSeq(Tail(s))

HasNaN(s) == \E i \in 1..Len(s) : IsNaN(s[i])

SeqsUpTo(S, n) == UNION {[1..k -> S] : k \in 0..n}

\* ---------------------------------------------------- fractions (time index)
RatLe(a, b) == a[1] * b[2] <= b[1] * a[2]
RatLt(a, b) == a[1] * b[2] < b[1] * a[2]
RatEq(a, b) == a[1] * b[2] = b[1] * a[2]
RatZero(a) == a[1] = 0
RatNeg(a) == a[1] < 0

\* timedelta / timedelta as a float: the sign is that of numerator times
\* denominator
TdDiv(num, den) == IF den < 0 THEN <<0 - num, 0 - den>> ELSE <<num, den>>

\* pd.Timedelta(scale, unit) in days
UnitDays(unit) == IF unit = "W" THEN 7 ELSE 1
Timedelta(scale, unit) == scale * UnitDays(unit)

\* ------------------------------------------------------------- gp_enso/time
dates_to_year_index(dates, reference_time) ==
    [i \in 1..Len(dates) |-> TdDiv(dates[i] - reference_time, Timedelta(YearDays, "D"))]

dates_to_index_swapped(dates, reference_time, unit, scale) ==
    [i \in 1..Len(dates) |-> TdDiv(reference_time - dates[i], Timedelta(scale, unit))]

dates_to_index(dates, reference_time, unit, scale) ==
    [i \in 1..Len(dates) |-> TdDiv(dates[i] - reference_time, Timedelta(scale, unit))]

\* --------------------------------------------------------------- gp_enso/io
\* np.std(y): sqrt(mean(|y - mean(y)|^2)), NaN as soon as y holds a NaN;
\* n^2 * variance = n * sum(y^2) - sum(y)^2
np_std(y) ==
    IF HasNaN(y) THEN NaN
    ELSE LET n == Len(y)
             sq == [i \in 1..n |-> y[i] * y[i]]
         IN  RoundDiv(ISqrt(n * SumSeq(sq) - SumSeq(y) * SumSeq(y)), n)

Raised(kind) == [status |-> kind, y_n |-> <<>>, first_value |-> 0, y_std |-> 0]

normalise_series(y) ==
    IF Len(y) = 0 THEN Raised("IndexError")
    ELSE LET first_value == y[1]
             y_std == np_std(y)
         IN  IF y_std = 0 THEN Raised("ValueError")
             ELSE [status |-> "ok",
                   y_n |-> [i \in 1..Len(y) |-> FDiv(FSub(y[i], first_value), y_std)],
                   first_value |-> first_value,
                   y_std |-> y_std]

normalise_column_meanshift(col) ==
    IF Len(col) = 0 THEN Raised("IndexError")
    ELSE LET first == col[1]
             std == np_std(col)
             mean == IF HasNaN(col) THEN NaN ELSE RoundDiv(SumSeq(col), Len(col))
         IN  IF std = 0 THEN Raised("ValueError")
             ELSE [status |-> "ok",
                   y_n |-> [i \in 1..Len(col) |-> FDiv(FSub(col[i], mean), std)],
                   first_value |-> first,
                   y_std |-> std]

\* df[col] is the column; the returned frame is represented by its y_n column
normalise_column(col) ==
    IF Len(col) = 0 THEN Raised("IndexError")
    ELSE LET first == col[1]
             std == np_std(col)
         IN  IF std = 0 THEN Raised("ValueError")
             ELSE [status |-> "ok",
                   y_n |-> [i \in 1..Len(col) |-> FDiv(FSub(col[i], first), std)],
                   first_value |-> first,
                   y_std |-> std]

\* a data frame is the sequence of its rows, in file order
load_nino34_csv(csv) == csv

Present(row) == row.NINA34 # MissingSentinel * Q /\ ~IsNaN(row.NINA34)

\* replace the sentinel by NaN, drop the NaN rows, index by Date; the rows
\* keep the order of the file
clean_and_index(df) == SelectSeq(df, Present)

\* rolling(window, center=True).mean() over row positions, then the rows
\* without a full window are dropped
add_rolling_smooth(df, window) ==
    LET h == (window - 1) \div 2
        n == Len(df)
        m == IF n >= window THEN n - window + 1 ELSE 0
    IN  [k \in 1..m |->
            [Date |-> df[k + h].Date,
             NINA34 |-> df[k + h].NINA34,
             NINA34_smoothed |->
                 RoundDiv(SumSeq([w \in 1..window |-> df[k + w - 1].NINA34]), window)]]

\* reference_time: <<>> for None, <<day>> for a timestamp
prepare_enso_dataframe(csv_path, rolling_window, reference_time) ==
    LET df0 == load_nino34_csv(csv_path)
        df1 == clean_and_index(df0)
        df2 == add_rolling_smooth(df1, rolling_window)
        index == [i \in 1..Len(df2) |-> df2[i].Date]
        t == IF reference_time # <<>>
             THEN dates_to_year_index(index, reference_time[1])
             ELSE dates_to_year_index(index, DEFAULT_REFERENCE_TIME)
        y == [i \in 1..Len(df2) |-> df2[i].NINA34_smoothed]
        n == normalise_series(y)
    IN  [status |-> n.status,
         index |-> index,
         smooth |-> y,
         t |-> IF n.status = "ok" THEN t ELSE <<>>,
         y_n |-> n.y_n,
         first_value |-> n.first_value,
         value_std |-> n.y_std]

\* ------------------------------------------------------ gp_enso/gp_model
\* build_quasiperiodic_gp_model: converts t and y to float arrays and binds
\* them to the kernel; it reads neither their length nor their spread
build_quasiperiodic_gp_model(t, y) ==
    [status |-> "ok", X |-> t, y |-> y]

\* fit_map: one pm.find_MAP call; the optimiser's point comes back whether
\* or not the optimiser reports convergence
fit_map(model, converged) == [status |-> "point", converged |-> converged]

\* ---------------------------------------------------------- gp_enso/forecast
\* make_monthly_date_grid: the month starts from first on, count of them
MonthStart == <<0, 31, 61, 92, 122, 153, 184, 212>>
make_monthly_date_grid(first, count) == [i \in 1..count |-> MonthStart[first + i - 1]]

\* predict_gp: tnew from the dates with the default reference; mu and cov
\* are what gp.predict returned, reshaped and cast, otherwise untouched
predict_gp(model, mp, dates, mu, cov) ==
    [status |-> "ok",
     dates |-> dates,
     tnew |-> dates_to_year_index(dates, DEFAULT_REFERENCE_TIME),
     mu |-> mu,
     cov |-> cov]

\* The generator behind pm.draw, reduced to a 16-state congruential stream.
PrngStep(s) == (5 * s + 3) % 16
RECURSIVE PrngAfter(_, _)
PrngAfter(s, n) == IF n = 0 THEN s ELSE PrngAfter(PrngStep(s), n - 1)

\* pm.draw(..., random_seed=seed) reseeds the variable's generator from the
\* seed it is given on every call; entropy is the state of everything else
\* (the OS entropy pool, numpy's global generator, earlier calls)
reseed_from_entropy(seed, entropy) == entropy

reseed_rngs(seed, entropy) == seed % 16

\* one draw of N(mu, cov): mu + L z, kept as (mu, cov, z), z the d-th block
\* of M standard normal variates of the stream
Sample(mu, cov, rng, d) ==
    [mu |-> mu, cov |-> cov,
     z |-> [j \in 1..Len(mu) |-> PrngAfter(rng, (d - 1) * Len(mu) + j)]]

\* pm.draw: a single draw is returned as it is, several are stacked
pm_draw(mu, cov, draws, rng) ==
    IF draws = 1
    THEN [status |-> "ok", shape |-> <<Len(mu)>>, value |-> Sample(mu, cov, rng, 1)]
    ELSE [status |-> "ok", shape |-> <<draws, Len(mu)>>,
          value |-> [d \in 1..draws |-> Sample(mu, cov, rng, d)]]

\* np.random.SeedSequence rejects a negative seed with ValueError
draw_paths(mu, cov, draws, seed, entropy) ==
    IF seed < 0
    THEN [status |-> "ValueError", shape |-> <<>>, value |-> <<>>]
    ELSE pm_draw(mu, cov, draws, reseed_rngs(seed, entropy))

\* --------------------------------------------- scripts/run_notebook_steps
\* mu_sc = pred.mu * prepared.value_std + prepared.first_value
RescaleMean(mu, value_std, first_value) ==
    [i \in 1..Len(mu) |-> FAdd(FMul(mu[i], value_std), first_value)]

RescaleCovLinear(cov, value_std) ==
    [i \in 1..Len(cov) |-> [j \in 1..Len(cov[i]) |-> FMul(cov[i][j], value_std)]]

\* cov_sc = pred.cov * (prepared.value_std ** 2)
RescaleCov(cov, value_std) ==
    [i \in 1..Len(cov) |->
        [j \in 1..Len(cov[i]) |-> FMul(cov[i][j], FMul(value_std, value_std))]]

\* -------------------------------------------------------------------- state
VARIABLES
    tm_call,        \* time mapper: the call made ("none" before it)
    tm_dates,       \* its dates argument
    tm_ref,         \* its reference_time argument
    tm_unit,        \* its unit argument
    tm_scale,       \* its scale argument
    tm_out          \* the array it returned

VARIABLES
    nm_call,        \* entry point called on a raw series ("none" before it)
    nm_y,           \* the series
    nm_result,      \* what the entry point returned or raised
    nm_back         \* y_n sent back through the denormalisation (<<>> before)

VARIABLES
    dr_calls,       \* draw_paths calls made so far
    dr_first,       \* arguments and result of the first call
    dr_last,        \* arguments and result of the latest call
    dr_entropy      \* state outside the arguments

VARIABLES
    pc,             \* main: the step reached
    csv,            \* the rows of the CSV file
    reference_time, \* the reference_time handed to prepare_enso_dataframe
    prepared,       \* ENSOPrepared, or the error raised
    model,          \* the model handle
    mp,             \* the point returned by fit_map
    fit_runs,       \* optimisation runs made
    pred,           \* GPPrediction
    mu_sc,          \* mean in physical units
    cov_sc,         \* covariance in physical units
    samples         \* the drawn paths

timeVars == <<tm_call, tm_dates, tm_ref, tm_unit, tm_scale, tm_out>>
normVars == <<nm_call, nm_y, nm_result, nm_back>>
drawVars == <<dr_calls, dr_first, dr_last, dr_entropy>>

pipeVars == <<pc, csv, reference_time, prepared, model, mp, fit_runs, pred,
              mu_sc, cov_sc, samples>>

vars == <<timeVars, normVars, drawVars, pipeVars>>

\* ------------------------------------------------------- time index mapper
Days == {-365, 0, 31, 365}
RefTimes == {DEFAULT_REFERENCE_TIME, 31, 365}
Units == {"D", "W"}
\* Timedelta(0, unit) is a zero duration; dividing by it is left out
Scales == {-365, -1, 1, DefaultScale}

TimeIdle ==
    /\ tm_call = "none"
    /\ tm_dates = <<>>
    /\ tm_ref = DEFAULT_REFERENCE_TIME
    /\ tm_unit = "D"
    /\ tm_scale = DefaultScale
    /\ tm_out = <<>>

InitTimeInputs ==
    /\ tm_call = "none"
    /\ tm_dates \in SeqsUpTo(Days, MaxDates)
    /\ tm_ref \in RefTimes
    /\ tm_unit \in Units
    /\ tm_scale \in Scales
    /\ tm_out = <<>>

CallDatesToYearIndex ==
    /\ tm_call = "none"
    /\ tm_call' = "dates_to_year_index"
    /\ tm_out' = dates_to_year_index(tm_dates, tm_ref)
    /\ UNCHANGED <<tm_dates, tm_ref, tm_unit, tm_scale>>
    /\ UNCHANGED <<normVars, drawVars, pipeVars>>

CallDatesToIndex ==
    /\ tm_call = "none"
    /\ tm_call' = "dates_to_index"
    /\ tm_out' = dates_to_index(tm_dates, tm_ref, tm_unit, tm_scale)
    /\ UNCHANGED <<tm_dates, tm_ref, tm_unit, tm_scale>>
    /\ UNCHANGED <<normVars, drawVars, pipeVars>>

NextTime == CallDatesToYearIndex \/ CallDatesToIndex

\* the duration that one unit of the returned index stands for
UnitOfCall == IF tm_call = "dates_to_index" THEN Timedelta(tm_scale, tm_unit)
              ELSE Timedelta(YearDays, "D")

MonotoneOut ==
    /\ Len(tm_out) = Len(tm_dates)
    /\ \A i, j \in 1..Len(tm_out) :
          tm_dates[i] < tm_dates[j] => RatLe(tm_out[i], tm_out[j])
    /\ \A i \in 1..Len(tm_out) :
          /\ tm_dates[i] < tm_ref => RatNeg(tm_out[i])
          /\ tm_dates[i] = tm_ref => RatZero(tm_out[i])

\* C2 (as stated): after either mapper has run, with any unit scale it
\* accepts, the output is monotone in the date, negative before the
\* reference and 0 at the reference.
C2_MonotoneAnyScale == tm_call # "none" => MonotoneOut

\* C2 (amended): the same, for every unit of positive duration, which
\* includes the fixed 365 days of dates_to_year_index.
C2_MonotonePositiveScale == (tm_call # "none" /\ UnitOfCall > 0) => MonotoneOut

C2_Witness ==
    /\ tm_call = "dates_to_index"
    /\ tm_scale > 0
    /\ \E i, j \in 1..Len(tm_out) :
          /\ tm_dates[i] < tm_ref
          /\ tm_dates[j] > tm_ref
          /\ RatLt(tm_out[i], tm_out[j])
    /\ \E i \in 1..Len(tm_out) : tm_dates[i] = tm_ref

\* ------------------------------------------- entry points on a raw series
NormVals == {0 - Q, 0, 3 * Q, NaN}

NormIdle ==
    /\ nm_call = "none"
    /\ nm_y = <<>>
    /\ nm_result = Raised("none")
    /\ nm_back = <<>>

InitNormInputs ==
    /\ nm_call = "none"
    /\ nm_y \in SeqsUpTo(NormVals, MaxLen)
    /\ nm_result = Raised("none")
    /\ nm_back = <<>>

CallNormaliseSeries ==
    /\ nm_call = "none"
    /\ nm_call' = "normalise_series"
    /\ nm_result' = normalise_series(nm_y)
    /\ UNCHANGED <<nm_y, nm_back>>
    /\ UNCHANGED <<timeVars, drawVars, pipeVars>>

CallNormaliseColumn ==
    /\ nm_call = "none"
    /\ nm_call' = "normalise_column"
    /\ nm_result' = normalise_column(nm_y)
    /\ UNCHANGED <<nm_y, nm_back>>
    /\ UNCHANGED <<timeVars, drawVars, pipeVars>>

\* build_quasiperiodic_gp_model(t, y) called by hand, t = 0, 1, 2, ... years
\* (an empty training set is left out)
CallBuildModel ==
    /\ nm_call = "none"
    /\ Len(nm_y) >= 1
    /\ nm_call' = "build_quasiperiodic_gp_model"
    /\ nm_result' = build_quasiperiodic_gp_model([i \in 1..Len(nm_y) |-> <<i - 1, 1>>], nm_y)
    /\ UNCHANGED <<nm_y, nm_back>>
    /\ UNCHANGED <<timeVars, drawVars, pipeVars>>

\* the caller's y_n * scale + first_value, on the normaliser's own output
Denormalise ==
    /\ nm_call \in {"normalise_series", "normalise_column"}
    /\ nm_result.status = "ok"
    /\ nm_back = <<>>
    /\ nm_back' = RescaleMean(nm_result.y_n, nm_result.y_std, nm_result.first_value)
    /\ UNCHANGED <<nm_call, nm_y, nm_result>>
    /\ UNCHANGED <<timeVars, drawVars, pipeVars>>

NextNorm == CallNormaliseSeries \/ CallNormaliseColumn \/ CallBuildModel \/ Denormalise

\* rounding left by one division and one product on a series of spread std
Tolerance(std) == std \div (2 * Q) + 1

\* C3 (as stated): whenever a normaliser succeeds, denormalising its y_n
\* gives back y, element for element.
C3_RoundTripExact == nm_back # <<>> => nm_back = nm_y

\* C3 (amended): for a series of finite values on which a normaliser
\* succeeds, denormalising its y_n gives back every element of y to within
\* the rounding of one division and one product.
C3_RoundTripTolerance ==
    (nm_back # <<>> /\ ~HasNaN(nm_y)) =>
        /\ Len(nm_back) = Len(nm_y)
        /\ \A i \in 1..Len(nm_y) :
              /\ ~IsNaN(nm_back[i])
              /\ Abs(nm_back[i] - nm_y[i]) <= Tolerance(nm_result.y_std)

C3_Witness ==
    /\ nm_call = "normalise_column"
    /\ nm_back # <<>>
    /\ ~HasNaN(nm_y)
    /\ Len(nm_y) = MaxLen
    /\ nm_result.first_value # 0
    /\ nm_result.y_std # Q
    /\ \E i \in 1..Len(nm_y) : nm_back[i] # nm_y[i]

\* a single training point, or a series without spread
Degenerate(y) == Len(y) >= 1 /\ \A i \in 1..Len(y) : y[i] = y[1] /\ ~IsNaN(y[i])

\* C7: every entry point ends in a ValueError, and returns nothing, on a
\* single-point or zero-variance series.
C7_DegenerateFailsFast ==
    (nm_call # "none" /\ Degenerate(nm_y)) => nm_result.status = "ValueError"

\* ------------------------------------------------------------ path sampler
DrawMeans == {<<0>>, <<0, Q>>}
Identity(M) == [i \in 1..M |-> [j \in 1..M |-> IF i = j THEN Q ELSE 0]]
Seeds == {DefaultSeed, 0, 1}

NoCall == [called |-> FALSE, mu |-> <<>>, cov |-> <<>>, draws |-> 0, seed |-> 0,
           out |-> [status |-> "none", shape |-> <<>>, value |-> <<>>]]

DrawIdle ==
    /\ dr_calls = 0
    /\ dr_first = NoCall
    /\ dr_last = NoCall
    /\ dr_entropy = 0

InitDrawInputs ==
    /\ dr_calls = 0
    /\ dr_first = NoCall
    /\ dr_last = NoCall
    /\ dr_entropy \in 0..MaxEntropy

SameArgs(a, b) ==
    /\ a.mu = b.mu
    /\ a.cov = b.cov
    /\ a.draws = b.draws
    /\ a.seed = b.seed

\* one call of draw_paths; a caller that passes no seed gets DefaultSeed
CallDrawPaths ==
    /\ dr_calls < MaxCalls
    /\ \E mu \in DrawMeans, draws \in 1..MaxDraws, seed \in Seeds :
          LET cov == Identity(Len(mu))
              call == [called |-> TRUE, mu |-> mu, cov |-> cov, draws |-> draws,
                       seed |-> seed,
                       out |-> draw_paths(mu, cov, draws, seed, dr_entropy)]
          IN  /\ dr_last' = call
              /\ dr_first' = IF dr_calls = 0 THEN call ELSE dr_first
    /\ dr_calls' = dr_calls + 1
    /\ UNCHANGED dr_entropy
    /\ UNCHANGED <<timeVars, normVars, pipeVars>>

\* anything else that runs between two calls moves the state outside
Elsewhere ==
    /\ dr_calls < MaxCalls
    /\ dr_entropy' = (dr_entropy + 1) % (MaxEntropy + 1)
    /\ UNCHANGED <<dr_calls, dr_first, dr_last>>
    /\ UNCHANGED <<timeVars, normVars, pipeVars>>

NextDraw == CallDrawPaths \/ Elsewhere

\* C5: a call that returns, returns an array of shape (draws, M).
C5_ShapeDrawsByM ==
    (dr_last.called /\ dr_last.seed >= 0) =>
        /\ dr_last.out.status = "ok"
        /\ dr_last.out.shape = <<dr_last.draws, Len(dr_last.mu)>>

RawVals == {0, Q, MissingSentinel * Q}
CsvDays == {0, 31, 61}
RefArgs == {<<>>, <<365>>}
GridFirsts == {2, 6}
GridLens == {1, 2}
MuOut(M) == {[i \in 1..M |-> Q], [i \in 1..M |-> IF i = 1 THEN 0 - Q \div 2 ELSE Q]}
\* gp.predict's covariance: any diagonal and off-diagonal entries, among
\* them a diagonal just below zero and unequal mirror entries
CovOut(M) ==
    {[i \in 1..M |-> [j \in 1..M |-> IF i = j THEN d[i] ELSE o[<<i, j>>]]] :
        d \in [1..M -> {0 - 1, Q}],
        o \in [{<<i, j>> \in (1..M) \X (1..M) : i # j} -> {0, Q \div 2}]}

\* a file with one row per month, in calendar order
MonthlyCsv ==
    UNION {{[i \in 1..k |-> [Date |-> MonthStart[i], NINA34 |-> v[i]]] :
               v \in [1..k -> RawVals]} : k \in 0..MaxRows}

\* a file with any dates in any order
AnyCsv ==
    SeqsUpTo({[Date |-> d, NINA34 |-> v] : d \in CsvDays, v \in RawVals}, MaxCsvRows)

NoPrepared == [status |-> "none", index |-> <<>>, smooth |-> <<>>, t |-> <<>>,
               y_n |-> <<>>, first_value |-> 0, value_std |-> 0]
NoModel == [status |-> "none", X |-> <<>>, y |-> <<>>]
NoPoint == [status |-> "none", converged |-> FALSE]
NoPrediction == [status |-> "none", dates |-> <<>>, tnew |-> <<>>, mu |-> <<>>,
                 cov |-> <<>>]

PipeIdle ==
    /\ pc = "idle"
    /\ csv = <<>>
    /\ reference_time = <<>>
    /\ prepared = NoPrepared
    /\ model = NoModel
    /\ mp = NoPoint
    /\ fit_runs = 0
    /\ pred = NoPrediction
    /\ mu_sc = <<>>
    /\ cov_sc = <<>>
    /\ samples = NoCall.out

InitPipeInputs(files) ==
    /\ pc = "start"
    /\ csv \in files
    /\ reference_time \in RefArgs
    /\ prepared = NoPrepared
    /\ model = NoModel
    /\ mp = NoPoint
    /\ fit_runs = 0
    /\ pred = NoPrediction
    /\ mu_sc = <<>>
    /\ cov_sc = <<>>
    /\ samples = NoCall.out

\* prepared = prepare_enso_dataframe(csv, reference_time=...); an exception
\* ends the run
Prepare ==
    /\ pc = "start"
    /\ prepared' = prepare_enso_dataframe(csv, RollingWindow, reference_time)
    /\ pc' = IF prepared'.status = "ok" THEN "prepared" ELSE "failed"
    /\ UNCHANGED <<csv, reference_time, model, mp, fit_runs, pred, mu_sc, cov_sc, samples>>
    /\ UNCHANGED <<timeVars, normVars, drawVars>>

\* model, gp = build_quasiperiodic_gp_model(t, y)
Build ==
    /\ pc = "prepared"
    /\ model' = build_quasiperiodic_gp_model(prepared.t, prepared.y_n)
    /\ pc' = "built"
    /\ UNCHANGED <<csv, reference_time, prepared, mp, fit_runs, pred, mu_sc, cov_sc, samples>>
    /\ UNCHANGED <<timeVars, normVars, drawVars>>

\* mp = fit_map(model): the optimiser converges or stops short of it
Fit ==
    /\ pc = "built"
    /\ \E converged \in BOOLEAN : mp' = fit_map(model, converged)
    /\ fit_runs' = fit_runs + 1
    /\ pc' = "fitted"
    /\ UNCHANGED <<csv, reference_time, prepared, model, pred, mu_sc, cov_sc, samples>>
    /\ UNCHANGED <<timeVars, normVars, drawVars>>

\* mp = fit_map(model): find_MAP raises (a non-finite starting objective)
FitRaises ==
    /\ pc = "built"
    /\ fit_runs' = fit_runs + 1
    /\ pc' = "failed"
    /\ UNCHANGED <<csv, reference_time, prepared, model, mp, pred, mu_sc, cov_sc, samples>>
    /\ UNCHANGED <<timeVars, normVars, drawVars>>

\* dates = make_monthly_date_grid(...); pred = predict_gp(model, gp, mp, dates)
Predict ==
    /\ pc = "fitted"
    /\ \E first \in GridFirsts, count \in GridLens :
          \E mu \in MuOut(count), cov \in CovOut(count) :
             pred' = predict_gp(model, mp, make_monthly_date_grid(first, count), mu, cov)
    /\ pc' = "predicted"
    /\ UNCHANGED <<csv, reference_time, prepared, model, mp, fit_runs, mu_sc, cov_sc, samples>>
    /\ UNCHANGED <<timeVars, normVars, drawVars>>

\* rescale back to original units
Rescale ==
    /\ pc = "predicted"
    /\ mu_sc' = RescaleMean(pred.mu, prepared.value_std, prepared.first_value)
    /\ cov_sc' = RescaleCov(pred.cov, prepared.value_std)
    /\ pc' = "rescaled"
    /\ UNCHANGED <<csv, reference_time, prepared, model, mp, fit_runs, pred, samples>>
    /\ UNCHANGED <<timeVars, normVars, drawVars>>

\* samples = draw_paths(mu_sc, cov_sc, draws=5, seed=1)
Draw ==
    /\ pc = "rescaled"
    /\ \E entropy \in 0..MaxEntropy :
          samples' = draw_paths(mu_sc, cov_sc, MainDraws, MainSeed, entropy)
    /\ pc' = "drawn"
    /\ UNCHANGED <<csv, reference_time, prepared, model, mp, fit_runs, pred, mu_sc, cov_sc>>
    /\ UNCHANGED <<timeVars, normVars, drawVars>>

Next == Prepare \/ Build \/ Fit \/ FitRaises \/ Predict \/ Rescale \/ Draw

\* C1: a date of the training index that is also on the forecast grid has
\* the same numeric time in t and in tnew.
C1_SameReference ==
    pred.status = "ok" =>
        \A i \in 1..Len(prepared.index), j \in 1..Len(pred.dates) :
            prepared.index[i] = pred.dates[j] => RatEq(prepared.t[i], pred.tnew[j])

\* C4: in physical units every covariance entry is the predicted entry times
\* the square of the scale, with nothing added, and every mean entry is the
\* predicted entry times the scale plus first_value, up to the rounding of
\* the products; scale and first_value are the spread and the first element
\* of the training series.
C4_RescaleSquare ==
    pc \in {"rescaled", "drawn"} =>
        LET s == prepared.value_std
            f == prepared.first_value
        IN  /\ f = prepared.smooth[1]
            /\ s = np_std(prepared.smooth)
            /\ Len(cov_sc) = Len(pred.cov)
            /\ Len(mu_sc) = Len(pred.mu)
            /\ \A i, j \in 1..Len(pred.cov) :
                  2 * Abs(cov_sc[i][j] * Q * Q - pred.cov[i][j] * s * s)
                     <= Q * Q + Abs(pred.cov[i][j]) * Q
            /\ \A i \in 1..Len(pred.mu) :
                  2 * Abs((mu_sc[i] - f) * Q - pred.mu[i] * s) <= Q

C4_Witness ==
    /\ pc = "rescaled"
    /\ prepared.first_value # 0
    /\ prepared.value_std # Q
    /\ Len(pred.cov) = 2
    /\ pred.cov[1][2] # 0
    /\ pred.cov[1][1] = Q

Symmetric(c) == \A i, j \in 1..Len(c) : c[i][j] = c[j][i]
DiagNonNegative(c) == \A i \in 1..Len(c) : c[i][i] >= 0

\* C8: the covariance in GPPrediction is symmetric with a non-negative
\* diagonal.
C8_CovSymmetricNonNegative ==
    pred.status = "ok" => Symmetric(pred.cov) /\ DiagNonNegative(pred.cov)

StrictlyIncreasing(t) == \A i \in 1..Len(t) - 1 : RatLt(t[i], t[i + 1])

\* C9: the t column of a prepared table is sorted ascending without
\* duplicates and its y_n column is finite.
C9_SortedUnique ==
    prepared.status = "ok" => StrictlyIncreasing(prepared.t) /\ ~HasNaN(prepared.y_n)

\* C10: fit_map runs the optimiser once, and a prediction is only made from
\* the point of a run that converged.
C10_OnlyConvergedPredicted ==
    /\ pc \in {"fitted", "predicted", "rescaled", "drawn"} => fit_runs = 1
    /\ pred.status = "ok" => mp.converged

\* --------------------------------------------------------- specifications
Init == TimeIdle /\ NormIdle /\ DrawIdle /\ InitPipeInputs(MonthlyCsv)
Spec == Init /\ [][Next]_vars

InitPrepare == TimeIdle /\ NormIdle /\ DrawIdle /\ InitPipeInputs(AnyCsv)
SpecPrepare == InitPrepare /\ [][Prepare]_vars

InitTime == InitTimeInputs /\ NormIdle /\ DrawIdle /\ PipeIdle
SpecTime == InitTime /\ [][NextTime]_vars

InitNorm == TimeIdle /\ InitNormInputs /\ DrawIdle /\ PipeIdle
SpecNorm == InitNorm /\ [][NextNorm]_vars

InitDraw == TimeIdle /\ NormIdle /\ InitDrawInputs /\ PipeIdle
SpecDraw == InitDraw /\ [][NextDraw]_vars
====
